---------------------------- MODULE Spec2Model ----------------------------
(***************************************************************************)
(* kustomize-build-check: the dependency graph (internal/graph), the       *)
(* impact analyzer (internal/analyzer) and the path functions of Go's      *)
(* path/filepath they are built on.                                        *)
(*                                                                         *)
(* A path is a sequence of one-character strings, so that Clean, Join,     *)
(* Ext, Base, Dir and HasPrefix are computed character by character as     *)
(* the library computes them.                                              *)
(***************************************************************************)
EXTENDS Integers, Sequences, FiniteSets, Bags, TLC

VARIABLES files, nodes, reverseLookup, phase, call, run

vars == <<files, nodes, reverseLookup, phase, call, run>>

-----------------------------------------------------------------------------
(* Sequences and strings                                                   *)

Range(s) == {s[i] : i \in 1..Len(s)}

NoDup(s) == \A i, j \in 1..Len(s) : s[i] = s[j] => i = j

\* The list s in the order o, a permutation of its indices
Reorder(s, o) == [i \in 1..Len(s) |-> s[o[i]]]

\* A faulty variant of RangeOrders: the entries are visited in any order,
\* as the keys of a map are.
RangeOrdersOfMap(s) == Permutations(1..Len(s))

\* for _, x := range s over a slice: the orders in which the loop may visit
\* the entries, which is the index order and no other
RangeOrders(s) == {[i \in 1..Len(s) |-> i]}

\* strings.HasPrefix(s, prefix)
HasPrefix(s, prefix) ==
    /\ Len(prefix) <= Len(s)
    /\ SubSeq(s, 1, Len(prefix)) = prefix

Sep == "/"

\* The index of the last separator of path, 0 when it has none.
LastSep(path) ==
    LET idx == {i \in 1..Len(path) : path[i] = Sep}
    IN  IF idx = {} THEN 0 ELSE CHOOSE i \in idx : \A j \in idx : j <= i

RECURSIVE SplitFrom(_, _, _, _)
\* The elements of path between separators, left to right (empty ones kept).
SplitFrom(path, i, cur, acc) ==
    IF i > Len(path) THEN Append(acc, cur)
    ELSE IF path[i] = Sep THEN SplitFrom(path, i + 1, <<>>, Append(acc, cur))
    ELSE SplitFrom(path, i + 1, Append(cur, path[i]), acc)

Split(path) == SplitFrom(path, 1, <<>>, <<>>)

RECURSIVE JoinElems(_, _)
\* elems[i..] written with a separator between neighbours
JoinElems(elems, i) ==
    IF i > Len(elems) THEN <<>>
    ELSE IF i = Len(elems) THEN elems[i]
    ELSE elems[i] \o <<Sep>> \o JoinElems(elems, i + 1)

Dot == <<".">>
DotDot == <<".", ".">>

RECURSIVE CleanElems(_, _, _, _)
\* filepath.Clean's loop over the elements: an empty element and "." are
\* dropped, ".." removes the element before it when there is one to remove,
\* is dropped at the root and is kept in a relative path.
CleanElems(elems, i, rooted, out) ==
    IF i > Len(elems) THEN out
    ELSE LET e == elems[i] IN
         IF e = <<>> \/ e = Dot THEN CleanElems(elems, i + 1, rooted, out)
         ELSE IF e = DotDot THEN
             IF Len(out) > 0 /\ out[Len(out)] # DotDot
             THEN CleanElems(elems, i + 1, rooted, SubSeq(out, 1, Len(out) - 1))
             ELSE IF rooted THEN CleanElems(elems, i + 1, rooted, out)
             ELSE CleanElems(elems, i + 1, rooted, Append(out, DotDot))
         ELSE CleanElems(elems, i + 1, rooted, Append(out, e))

\* filepath.Clean
Clean(path) ==
    IF path = <<>> THEN Dot
    ELSE LET rooted == path[1] = Sep
             out    == CleanElems(Split(path), 1, rooted, <<>>)
             body   == JoinElems(out, 1)
             res    == IF rooted THEN <<Sep>> \o body ELSE body
         IN  IF res = <<>> THEN Dot ELSE res

\* filepath.Join(a, b)
Join(a, b) ==
    IF a # <<>> THEN Clean(a \o <<Sep>> \o b)
    ELSE IF b # <<>> THEN Clean(b)
    ELSE <<>>

RECURSIVE ExtFrom(_, _)
\* filepath.Ext: scanning back from the end to the last separator, the
\* suffix that starts at the first dot met.
ExtFrom(path, i) ==
    IF i < 1 \/ path[i] = Sep THEN <<>>
    ELSE IF path[i] = "." THEN SubSeq(path, i, Len(path))
    ELSE ExtFrom(path, i - 1)

Ext(path) == ExtFrom(path, Len(path))

RECURSIVE StripTrailingSeps(_)
StripTrailingSeps(path) ==
    IF Len(path) > 0 /\ path[Len(path)] = Sep
    THEN StripTrailingSeps(SubSeq(path, 1, Len(path) - 1))
    ELSE path

\* filepath.Base
Base(path) ==
    IF path = <<>> THEN Dot
    ELSE LET p == StripTrailingSeps(path)
             q == SubSeq(p, LastSep(p) + 1, Len(p))
         IN  IF q = <<>> THEN <<Sep>> ELSE q

\* filepath.Dir
Dir(path) == Clean(SubSeq(path, 1, LastSep(path)))

\* filepath.IsAbs
IsAbs(path) == HasPrefix(path, <<Sep>>)

-----------------------------------------------------------------------------
(* internal/discovery: the parsed unit                                     *)

\* discovery.KustomizeFile (Path is not read by the graph or the analyzer)
KustomizeFile(dir, resources, bases, components) ==
    [Dir |-> dir, Resources |-> resources, Bases |-> bases,
     Components |-> components]

KustomizationYaml ==
    <<"k","u","s","t","o","m","i","z","a","t","i","o","n",".","y","a","m","l">>
KustomizationYml ==
    <<"k","u","s","t","o","m","i","z","a","t","i","o","n",".","y","m","l">>
KustomizationBare ==
    <<"K","u","s","t","o","m","i","z","a","t","i","o","n">>

\* A faulty variant of isKustomizationFile: every name that begins like
\* kustomization.yaml is accepted.
isKustomizationFileByPrefix(name) ==
    \/ HasPrefix(name, <<"k","u","s","t","o","m","i","z">>)
    \/ name = KustomizationBare

\* analyzer.isKustomizationFile
isKustomizationFile(name) ==
    \/ name = KustomizationYaml
    \/ name = KustomizationYml
    \/ name = KustomizationBare

\* discovery.isKustomizationFile
discoveryIsKustomizationFile(name) ==
    \/ name = KustomizationYaml
    \/ name = KustomizationYml
    \/ name = KustomizationBare

-----------------------------------------------------------------------------
(* internal/graph                                                          *)

\* graph.Node
Node(path, isBase, dependencies) ==
    [Path |-> path, IsBase |-> isBase, Dependencies |-> dependencies]

\* m[k] = v in a Go map
MapSet(m, k, v) ==
    [x \in DOMAIN m \cup {k} |-> IF x = k THEN v ELSE m[x]]

\* graph.New
NewGraph == [nodes |-> <<>>, reverseLookup |-> <<>>]

\* The resources that stay in the dependency list: those without an
\* extension.
IsDirectoryReference(resource) == Ext(resource) = <<>>

\* A faulty variant of extractDependencies: the resources are left out.
extractDependenciesWithoutResources(file) == file.Bases \o file.Components

\* DependencyGraph.extractDependencies
extractDependencies(file) ==
    SelectSeq(file.Resources, IsDirectoryReference)
        \o file.Bases \o file.Components

RECURSIVE CreateNodes(_, _, _)
\* Build, first pass: a fresh node for every file, keyed by file.Dir
CreateNodes(n, fs, i) ==
    IF i > Len(fs) THEN n
    ELSE CreateNodes(MapSet(n, fs[i].Dir, Node(fs[i].Dir, FALSE, <<>>)),
                     fs, i + 1)

\* A faulty variant of ResolveDependency: the two paths are concatenated
\* and the result is not cleaned.
ResolveDependencyUncleaned(dir, dep) == dir \o <<Sep>> \o dep

\* Build, the path a dependency of the unit at dir resolves to
ResolveDependency(dir, dep) == Clean(Join(dir, dep))

\* A faulty variant of AppendReverse: the edge is recorded in both
\* directions.
AppendReverseBothWays(rl, base, overlay) ==
    LET one == MapSet(rl, base,
                      IF base \in DOMAIN rl THEN Append(rl[base], overlay)
                      ELSE <<overlay>>)
    IN  MapSet(one, overlay,
               IF overlay \in DOMAIN one THEN Append(one[overlay], base)
               ELSE <<base>>)

\* append(g.reverseLookup[base], overlay)
AppendReverse(rl, base, overlay) ==
    MapSet(rl, base,
           IF base \in DOMAIN rl THEN Append(rl[base], overlay)
           ELSE <<overlay>>)

RECURSIVE MarkDependenciesUntilMissing(_, _, _, _)
\* A faulty variant of MarkDependencies: the loop ends at the first
\* dependency that resolves to no node.
MarkDependenciesUntilMissing(g, dir, deps, j) ==
    IF j > Len(deps) THEN g
    ELSE LET absDepPath == Clean(Join(dir, deps[j])) IN
         IF absDepPath \in DOMAIN g.nodes
         THEN MarkDependenciesUntilMissing(
                  [nodes |-> [g.nodes EXCEPT ![absDepPath].IsBase = TRUE],
                   reverseLookup |->
                       MapSet(g.reverseLookup, absDepPath,
                              IF absDepPath \in DOMAIN g.reverseLookup
                              THEN Append(g.reverseLookup[absDepPath], dir)
                              ELSE <<dir>>)],
                  dir, deps, j + 1)
         ELSE g

RECURSIVE MarkDependencies(_, _, _, _)
\* Build, the loop over one file's dependencies: a dependency that resolves
\* to a node marks it as a base and records the file's directory under it.
MarkDependencies(g, dir, deps, j) ==
    IF j > Len(deps) THEN g
    ELSE LET absDepPath == ResolveDependency(dir, deps[j]) IN
         IF absDepPath \in DOMAIN g.nodes
         THEN MarkDependencies(
                  [nodes |-> [g.nodes EXCEPT ![absDepPath].IsBase = TRUE],
                   reverseLookup |->
                       AppendReverse(g.reverseLookup, absDepPath, dir)],
                  dir, deps, j + 1)
         ELSE MarkDependencies(g, dir, deps, j + 1)

RECURSIVE EstablishInOnePass(_, _, _)
\* A faulty variant of EstablishDependencies: a dependency is looked up
\* among the units visited so far, as a build of one pass would do.
EstablishInOnePass(g, fs, i) ==
    IF i > Len(fs) THEN g
    ELSE LET deps == extractDependencies(fs[i])
             seen == {fs[j].Dir : j \in 1..i}
             Known(dep) == ResolveDependency(fs[i].Dir, dep) \in seen
             g1   == [g EXCEPT !.nodes[fs[i].Dir].Dependencies = deps]
         IN  EstablishInOnePass(
                 MarkDependencies(g1, fs[i].Dir, SelectSeq(deps, Known), 1),
                 fs, i + 1)

RECURSIVE EstablishDependencies(_, _, _)
\* Build, second pass
EstablishDependencies(g, fs, i) ==
    IF i > Len(fs) THEN g
    ELSE LET deps == extractDependencies(fs[i])
             g1   == [g EXCEPT !.nodes[fs[i].Dir].Dependencies = deps]
         IN  EstablishDependencies(
                 MarkDependencies(g1, fs[i].Dir, deps, 1), fs, i + 1)

\* DependencyGraph.Build on the graph g
BuildGraph(g, fs) ==
    EstablishDependencies(
        [nodes |-> CreateNodes(g.nodes, fs, 1),
         reverseLookup |-> g.reverseLookup],
        fs, 1)

\* DependencyGraph.Build: the error returned, which is nil for every
\* collection
BuildError(fs) == "nil"

\* A faulty variant of ReverseLookupAfterRead: a key that is looked up and
\* not there is added with an empty list.
ReadInsertsKey(rl, key) ==
    IF key \in DOMAIN rl THEN rl
    ELSE [x \in DOMAIN rl \cup {key} |-> IF x = key THEN <<>> ELSE rl[x]]

\* g.reverseLookup after the lookup g.reverseLookup[key] of a query: an
\* index expression leaves the map as it is, whether the key is there or
\* not
ReverseLookupAfterRead(rl, key) == rl

\* DependencyGraph.GetDependentOverlays
GetDependentOverlays(rl, basePath) ==
    LET bp == Clean(basePath)
    IN  IF bp \in DOMAIN rl THEN rl[bp] ELSE <<>>

\* A faulty variant of GetDependentOverlaysShares: the list kept in
\* reverseLookup is returned as it is.
ReturnsInternalList(rl, basePath) == {Clean(basePath)} \cap DOMAIN rl

\* DependencyGraph.GetDependentOverlays: the keys of reverseLookup whose
\* list shares its storage with the returned slice. The slice is made anew
\* and filled by copy, or is a new empty slice, so there is none.
GetDependentOverlaysShares(rl, basePath) == {}

\* DependencyGraph.IsBase
IsBase(n, path) ==
    LET p == Clean(path)
    IN  IF p \in DOMAIN n THEN n[p].IsBase ELSE FALSE

\* DependencyGraph.GetNode: the node the returned pointer points to, as a
\* list of one node; the empty list is the nil pointer of an unknown path
GetNode(n, path) ==
    LET p == Clean(path)
    IN  IF p \in DOMAIN n THEN <<n[p]>> ELSE <<>>

\* DependencyGraph.GetNode: the keys of nodes whose node the returned
\* pointer points to. The pointer kept in the map is returned as it is.
GetNodeShares(n, path) == {Clean(path)} \cap DOMAIN n

\* DependencyGraph.String: for every node its path, its base marker, its
\* dependencies and the units that use it. The nodes are written in the
\* order of a range over the map, which is open, so the text is kept as
\* the set of its blocks.
String(n, rl) ==
    {[path |-> p, base |-> n[p].IsBase, dependencies |-> n[p].Dependencies,
      usedBy |-> GetDependentOverlays(rl, p)] : p \in DOMAIN n}

\* The depth of recursion the traversal may reach before the run is given
\* up as not terminating.
MaxDepth == 8

\* A faulty variant of AlreadyVisited: the visited set is not consulted.
NeverVisited(st, dependent) == FALSE

\* GetAllDependents: the visited test of the loop
AlreadyVisited(st, dependent) == dependent \in st.visited

\* GetAllDependents: marking a dependent visited and appending it
Visit(st, dependent) ==
    [st EXCEPT !.visited = @ \cup {dependent},
               !.result = Append(@, dependent)]

RECURSIVE collectDependents(_, _, _, _)
RECURSIVE IterateDependents(_, _, _, _, _)

\* A faulty variant of Descend: the dependent is recorded and its own
\* dependents are not collected.
DescendNot(rl, dependent, depth, st) == Visit(st, dependent)

\* GetAllDependents: a dependent not yet visited is marked, appended to the
\* result and its own dependents are collected
Descend(rl, dependent, depth, st) ==
    collectDependents(rl, dependent, depth + 1, Visit(st, dependent))

\* GetAllDependents: the closure collectDependents. st.expanded lists the
\* paths whose dependents were looked up, in call order.
collectDependents(rl, currentPath, depth, st) ==
    IF depth > MaxDepth THEN [st EXCEPT !.overflow = TRUE]
    ELSE LET cp  == Clean(currentPath)
             st1 == [st EXCEPT !.expanded = Append(@, cp)]
         IN  IF cp \in DOMAIN rl
             THEN IterateDependents(rl, rl[cp], 1, depth, st1)
             ELSE st1

\* GetAllDependents: the loop over the direct dependents of one path
IterateDependents(rl, dependents, i, depth, st) ==
    IF i > Len(dependents) \/ st.overflow THEN st
    ELSE LET dependent == Clean(dependents[i]) IN
         IF AlreadyVisited(st, dependent)
         THEN IterateDependents(rl, dependents, i + 1, depth, st)
         ELSE IterateDependents(rl, dependents, i + 1, depth,
                  Descend(rl, dependent, depth, st))

\* DependencyGraph.GetAllDependents, with the trace of the traversal
TraverseDependents(rl, path) ==
    collectDependents(rl, Clean(path), 1,
        [visited |-> {}, result |-> <<>>, expanded |-> <<>>,
         overflow |-> FALSE])

\* DependencyGraph.GetAllDependents
GetAllDependents(rl, path) == TraverseDependents(rl, path).result

-----------------------------------------------------------------------------
(* internal/analyzer                                                       *)

\* The working directory of the run: changed files are reported relative
\* to it.
WorkDir == <<"/", "r">>

\* filepath.Abs: an absolute path is cleaned, a relative one is joined to
\* the working directory (os.Getwd is taken to succeed).
Abs(path) == IF IsAbs(path) THEN Clean(path) ELSE Join(WorkDir, path)

\* A faulty variant of MatchesResource: the resolved path only has to be a
\* string prefix of the changed file.
MatchesResourcePrefix(changedFile, resourcePath) ==
    HasPrefix(changedFile, resourcePath)

\* analyzer.fileReferencedByKustomization: the test of one resource
MatchesResource(changedFile, resourcePath) ==
    \/ changedFile = resourcePath
    \/ HasPrefix(changedFile, resourcePath \o <<Sep>>)

\* A faulty variant of fileReferencedByKustomization: every file under the
\* unit's directory counts as referenced.
fileUnderKustomization(changedFile, kust) ==
    HasPrefix(Clean(changedFile), Clean(kust.Dir))

\* analyzer.fileReferencedByKustomization
fileReferencedByKustomization(changedFile, kust) ==
    LET cf      == Clean(changedFile)
        kustDir == Clean(kust.Dir)
    IN  /\ HasPrefix(cf, kustDir)
        /\ \E i \in 1..Len(kust.Resources) :
               MatchesResource(cf, Clean(Join(kustDir, kust.Resources[i])))

\* A faulty variant of addAffected: the dependents of dir are added and dir
\* itself is not.
addAffectedDependentsOnly(dir, rl, affected) ==
    affected \cup {Clean(dep) : dep \in Range(GetAllDependents(rl, Clean(dir)))}

\* analyzer.addAffected: dir itself, then every dependent of dir
addAffected(dir, rl, affected) ==
    LET d == Clean(dir)
    IN  affected \cup {d}
            \cup {Clean(dep) : dep \in Range(GetAllDependents(rl, d))}

RECURSIVE ScanKustomizations(_, _, _, _, _)
\* GetAffectedKustomizations: the loop over the units for one changed file
\* that is not a unit-definition file
ScanKustomizations(changedFile, rl, all, k, affected) ==
    IF k > Len(all) THEN affected
    ELSE ScanKustomizations(changedFile, rl, all, k + 1,
             IF fileReferencedByKustomization(changedFile, all[k])
             THEN addAffected(all[k].Dir, rl, affected)
             ELSE affected)

\* A faulty variant of ProcessChangedFile: the map is made anew for every
\* changed file, so that what the files before it added is lost.
ProcessChangedFileAlone(changedFile, rl, all, affected) ==
    IF isKustomizationFile(Base(changedFile))
    THEN addAffected(Abs(Dir(changedFile)), rl, {})
    ELSE ScanKustomizations(changedFile, rl, all, 1, {})

\* GetAffectedKustomizations: one changed file
ProcessChangedFile(changedFile, rl, all, affected) ==
    IF isKustomizationFile(Base(changedFile))
    THEN addAffected(Abs(Dir(changedFile)), rl, affected)
    ELSE ScanKustomizations(changedFile, rl, all, 1, affected)

RECURSIVE AffectedMap(_, _, _, _, _)
\* GetAffectedKustomizations: the loop over the changed files, giving the
\* keys of the map affected
AffectedMap(changedFiles, rl, all, i, affected) ==
    IF i > Len(changedFiles) THEN affected
    ELSE AffectedMap(changedFiles, rl, all, i + 1,
             ProcessChangedFile(changedFiles[i], rl, all, affected))

\* GetAffectedKustomizations: the slice made from the map. Ranging over a
\* Go map yields every key once, in an order the language leaves open, so
\* the slice is kept as the bag of its entries: how often each path occurs
\* in it, and no position.
SliceOfKeys(keys) == SetToBag(keys)

\* analyzer.GetAffectedKustomizations
GetAffectedKustomizations(changedFiles, rl, all) ==
    SliceOfKeys(AffectedMap(changedFiles, rl, all, 1, {}))

-----------------------------------------------------------------------------
(* internal/discovery: FindAll; internal/reporter; main's exit status      *)

\* A file of the directory tree: its path as the walk yields it, whether
\* its content parses as YAML, and the three lists of its content
TreeFile(path, parses, resources, bases, components) ==
    [path |-> path, parses |-> parses, resources |-> resources,
     bases |-> bases, components |-> components]

\* FindAll: the file lies in a directory that the walk skips, one whose
\* name begins with a dot
InHiddenDir(path) ==
    LET elems == Split(path)
    IN  \E i \in 1..(Len(elems) - 1) :
            /\ elems[i] # <<>>
            /\ elems[i] # Dot
            /\ elems[i][1] = "."

\* discoverer.ParseKustomization of a file that parses
ParseKustomization(file) ==
    KustomizeFile(Dir(Abs(file.path)), file.resources, file.bases,
                  file.components)

RECURSIVE FindAllFrom(_, _)
\* discoverer.FindAll: the walk over the files tree[i..]. A file is parsed
\* when it is outside the hidden directories and has the name of a
\* definition file; one that does not parse is passed over with a warning.
FindAllFrom(tree, i) ==
    IF i > Len(tree) THEN <<>>
    ELSE IF /\ ~InHiddenDir(tree[i].path)
            /\ discoveryIsKustomizationFile(Base(tree[i].path))
            /\ tree[i].parses
         THEN <<ParseKustomization(tree[i])>> \o FindAllFrom(tree, i + 1)
         ELSE FindAllFrom(tree, i + 1)

\* discoverer.FindAll
FindAll(tree) == FindAllFrom(tree, 1)

\* reporter.GenerateSummary, of the results of BuildAll: for every path
\* built, whether its build succeeded
GenerateSummary(results) ==
    [Total   |-> Cardinality(DOMAIN results),
     Success |-> Cardinality({p \in DOMAIN results : results[p]}),
     Failed  |-> Cardinality({p \in DOMAIN results : ~results[p]})]

\* A faulty variant of ExitStatus: fail-on-error is not looked at.
ExitStatusWithoutFlag(failOnError, summary) ==
    IF summary.Failed > 0 THEN 1 ELSE 0

\* main: the exit status once the builds are reported
ExitStatus(failOnError, summary) ==
    IF failOnError /\ summary.Failed > 0 THEN 1 ELSE 0

-----------------------------------------------------------------------------
(* Inputs: unit collections and changed-file lists                         *)

DirA == <<"/","r","/","a">>
DirB == <<"/","r","/","b">>
DirC == <<"/","r","/","c",".","d">>
DirE == <<"/","r","/","e">>
DirZ == <<"/","r","/","z">>
UpA == <<".",".","/","a">>
UpB == <<".",".","/","b">>
UpC == <<".",".","/","c",".","d">>
XYaml == <<"x",".","y","a","m","l">>
TestBase == <<"/","t","e","s","t","/","b","a","s","e">>
TestOverlay1 == <<"/","t","e","s","t","/","o","v","e","r","l","a","y","1">>
TestOverlay2 == <<"/","t","e","s","t","/","o","v","e","r","l","a","y","2">>
TestOverlay3 == <<"/","t","e","s","t","/","o","v","e","r","l","a","y","3">>
UpBase == <<".",".","/","b","a","s","e">>
UpOverlay1 == <<".",".","/","o","v","e","r","l","a","y","1">>
DeploymentYaml == <<"d","e","p","l","o","y","m","e","n","t",".","y","a","m","l">>
RBase == <<"/","r","/","b","a","s","e">>
ROvA == <<"/","r","/","o","v","/","a">>
ROvB == <<"/","r","/","o","v","/","b">>
UpUpBase == <<".",".","/",".",".","/","b","a","s","e">>
PatchYaml == <<"p","a","t","c","h",".","y","a","m","l">>
UpUp == <<".",".","/",".",".">>
App == <<"a","p","p">>
App2 == <<"a","p","p","2">>
Lib == <<"l","i","b">>
UConfigYaml == <<"u","/","c","o","n","f","i","g",".","y","a","m","l">>
UConfigYamlBak == UConfigYaml \o <<".","b","a","k">>
KustomizeYaml == <<"k","u","s","t","o","m","i","z","e",".","y","a","m","l">>

\* a file named name in the directory dir, as an absolute path
FileIn(dir, name) == dir \o <<Sep>> \o name

\* The most units a generated collection holds, and the most changed files
\* one analysis is given.
MaxUnits == 3
MaxChanged == 2

\* The directories a generated collection places units in, in the lexical
\* order in which discovery's directory walk yields them.
DirPool == <<DirA, DirB, DirC, DirE>>

\* What a generated unit declares: nothing; a file and the sibling b in
\* resources; the sibling c.d, whose name has an extension, in bases; the
\* sibling a in components; the siblings a and b in resources with a once
\* more in bases. A sibling without a unit in the collection is a reference
\* that resolves to no node.
RefChoices ==
    { [Resources |-> <<>>,           Bases |-> <<>>,    Components |-> <<>>],
      [Resources |-> <<XYaml, UpB>>, Bases |-> <<>>,    Components |-> <<>>],
      [Resources |-> <<>>,           Bases |-> <<UpC>>, Components |-> <<>>],
      [Resources |-> <<>>,           Bases |-> <<>>,    Components |-> <<UpA>>],
      [Resources |-> <<UpA, UpB>>,   Bases |-> <<UpA>>, Components |-> <<>>] }

RECURSIVE CollectionsFrom(_, _)
\* The collections of at most n units in the directories DirPool[i..]
CollectionsFrom(i, n) ==
    IF i > Len(DirPool) \/ n = 0 THEN {<<>>}
    ELSE CollectionsFrom(i + 1, n) \cup
         { <<KustomizeFile(DirPool[i], c.Resources, c.Bases, c.Components)>>
               \o rest :
           c \in RefChoices, rest \in CollectionsFrom(i + 1, n - 1) }

\* The fixture of TestGetAllDependents: base <- overlay1 <- overlay2 and
\* base <- overlay3
TransitiveFixture ==
    << KustomizeFile(TestBase,     <<DeploymentYaml>>, <<>>, <<>>),
       KustomizeFile(TestOverlay1, <<UpBase>>,         <<>>, <<>>),
       KustomizeFile(TestOverlay2, <<UpOverlay1>>,     <<>>, <<>>),
       KustomizeFile(TestOverlay3, <<UpBase>>,         <<>>, <<>>) >>

\* The fixture of TestBuildGraph, at the paths of the specification's
\* scenario
BuildFixture ==
    << KustomizeFile(RBase, <<DeploymentYaml>>,          <<>>, <<>>),
       KustomizeFile(ROvA,  <<UpUpBase, PatchYaml>>,     <<>>, <<>>),
       KustomizeFile(ROvB,  <<UpUpBase>>,                <<>>, <<>>) >>

\* A unit at the root of the working tree that lists the directory app and
\* the file u/config.yaml in resources and the directory lib in bases
MatchFixture ==
    << KustomizeFile(WorkDir, <<App, UConfigYaml>>, <<Lib>>, <<>>) >>

\* A unit at the root of the working tree, and two units below it that
\* list a parent directory in resources: ".." and "../.."
ParentFixture ==
    << KustomizeFile(WorkDir, <<>>,         <<>>, <<>>),
       KustomizeFile(DirA,    <<DotDot>>,   <<>>, <<>>),
       KustomizeFile(ROvA,    <<UpUp>>,     <<>>, <<>>) >>

Collections ==
    CollectionsFrom(1, MaxUnits)
        \cup {TransitiveFixture, BuildFixture, MatchFixture, ParentFixture}

UnitDirs(fs) == {fs[i].Dir : i \in 1..Len(fs)}

\* The paths the graph is asked about: every unit directory, a directory
\* without a unit, and a unit directory written with a trailing "/."
QueryPaths(fs) == UnitDirs(fs) \cup {DirZ, DirA \o <<Sep, ".">>}

\* The changed files an analysis may be given, in the order of a diff's
\* name list
ChangedPool(fs) ==
    IF fs = TransitiveFixture
    THEN << FileIn(TestBase, KustomizationYaml),
            FileIn(TestOverlay1, KustomizationYaml) >>
    ELSE IF fs = BuildFixture
    THEN << FileIn(RBase, DeploymentYaml),
            FileIn(RBase, KustomizationYaml),
            FileIn(ROvA, PatchYaml) >>
    ELSE IF fs = ParentFixture
    THEN << FileIn(WorkDir, KustomizationYaml),
            FileIn(ROvA, KustomizationYaml) >>
    ELSE IF fs = MatchFixture
    THEN << FileIn(WorkDir, FileIn(App, XYaml)),
            FileIn(WorkDir, FileIn(App2, XYaml)),
            FileIn(WorkDir, KustomizeYaml),
            FileIn(WorkDir, FileIn(Lib, XYaml)),
            FileIn(WorkDir, UConfigYaml),
            FileIn(WorkDir, UConfigYamlBak) >>
    ELSE << FileIn(DirA, KustomizationYaml),
            FileIn(DirB, XYaml),
            FileIn(DirZ, KustomizationBare),
            <<"b", "/">> \o XYaml,
            <<"c", ".", "d", "/">> \o KustomizationYml >>

\* The path p below the working directory, written relative to it
RelativeToWorkDir(p) == SubSeq(p, Len(WorkDir) + 2, Len(p))

DotGithub == <<".","g","i","t","h","u","b">>

\* The directory trees that discovery walks, as their files in the order
\* of the walk: the base with a resource file and two overlays; a
\* directory with two definition files beside a second unit; a tree with a
\* definition file in a hidden directory, one that does not parse and a
\* file of another name; a cycle of three units; the tree without files.
Trees ==
    { << TreeFile(RelativeToWorkDir(FileIn(RBase, DeploymentYaml)), TRUE,
                  <<>>, <<>>, <<>>),
         TreeFile(RelativeToWorkDir(FileIn(RBase, KustomizationYaml)), TRUE,
                  <<DeploymentYaml>>, <<>>, <<>>),
         TreeFile(RelativeToWorkDir(FileIn(ROvA, KustomizationYaml)), TRUE,
                  <<UpUpBase>>, <<>>, <<>>),
         TreeFile(RelativeToWorkDir(FileIn(ROvB, KustomizationYaml)), TRUE,
                  <<UpUpBase>>, <<>>, <<>>) >>,
      << TreeFile(RelativeToWorkDir(FileIn(DirA, KustomizationBare)), TRUE,
                  <<>>, <<>>, <<>>),
         TreeFile(RelativeToWorkDir(FileIn(DirA, KustomizationYaml)), TRUE,
                  <<UpB>>, <<>>, <<>>),
         TreeFile(RelativeToWorkDir(FileIn(DirB, KustomizationYml)), TRUE,
                  <<XYaml>>, <<>>, <<>>) >>,
      << TreeFile(FileIn(DotGithub, KustomizationYaml), TRUE,
                  <<>>, <<>>, <<>>),
         TreeFile(RelativeToWorkDir(FileIn(DirA, KustomizationYaml)), FALSE,
                  <<>>, <<>>, <<>>),
         TreeFile(RelativeToWorkDir(FileIn(DirB, KustomizationYaml)), TRUE,
                  <<XYaml>>, <<>>, <<UpA>>),
         TreeFile(KustomizeYaml, TRUE, <<>>, <<>>, <<>>) >>,
      << TreeFile(RelativeToWorkDir(FileIn(DirA, KustomizationYaml)), TRUE,
                  <<UpB>>, <<>>, <<>>),
         TreeFile(RelativeToWorkDir(FileIn(DirB, KustomizationYaml)), TRUE,
                  <<>>, <<UpC>>, <<>>),
         TreeFile(RelativeToWorkDir(FileIn(DirC, KustomizationYaml)), TRUE,
                  <<>>, <<>>, <<UpA>>) >>,
      <<>> }

\* What the change detector may report: lists of paths relative to the
\* working directory, each in the order of git's name list
ChangedReports ==
    { <<>>,
      << RelativeToWorkDir(FileIn(RBase, DeploymentYaml)) >>,
      << RelativeToWorkDir(FileIn(RBase, KustomizationYaml)) >>,
      << RelativeToWorkDir(FileIn(DirA, KustomizationYaml)),
         RelativeToWorkDir(FileIn(DirB, XYaml)) >>,
      << RelativeToWorkDir(FileIn(DirB, KustomizationYaml)),
         KustomizeYaml >> }

RECURSIVE SubLists(_, _, _)
\* The lists of at most n entries of pool[i..], in pool order
SubLists(pool, i, n) ==
    IF i > Len(pool) \/ n = 0 THEN {<<>>}
    ELSE SubLists(pool, i + 1, n) \cup
         { <<pool[i]>> \o rest : rest \in SubLists(pool, i + 1, n - 1) }

ChangedLists(fs) == SubLists(ChangedPool(fs), 1, MaxChanged)

-----------------------------------------------------------------------------
(* The run: discovery has produced files; the graph is built once and then *)
(* queried, by the caller and by the analyzer. call holds the call made    *)
(* last and what it returned, until the caller has taken the result; the   *)
(* caller makes its next call after that.                                  *)

Idle == [op |-> "none"]

\* The state of main when the graph is used without it
NoRun == [pc |-> "none"]

Init ==
    /\ files \in Collections
    /\ nodes = NewGraph.nodes
    /\ reverseLookup = NewGraph.reverseLookup
    /\ phase = "new"
    /\ call = Idle
    /\ run = NoRun

\* g.Build(kustomizations)
Build ==
    /\ phase = "new"
    /\ call = Idle
    /\ \E o \in RangeOrders(files) :
           LET g == BuildGraph([nodes |-> nodes,
                                reverseLookup |-> reverseLookup],
                               Reorder(files, o))
           IN  /\ nodes' = g.nodes
               /\ reverseLookup' = g.reverseLookup
    /\ phase' = "built"
    /\ call' = [op |-> "Build", err |-> BuildError(files)]
    /\ UNCHANGED <<files, run>>

\* g.Build(kustomizations) once more, on the graph that is already built
BuildAgain ==
    /\ phase = "built"
    /\ call = Idle
    /\ \E o \in RangeOrders(files) :
           LET g == BuildGraph([nodes |-> nodes,
                                reverseLookup |-> reverseLookup],
                               Reorder(files, o))
           IN  /\ nodes' = g.nodes
               /\ reverseLookup' = g.reverseLookup
    /\ phase' = "rebuilt"
    /\ call' = [op |-> "BuildAgain", err |-> BuildError(files)]
    /\ UNCHANGED <<files, run>>

\* g.GetDependentOverlays(path)
CallGetDependentOverlays ==
    /\ phase = "built"
    /\ call = Idle
    /\ \E path \in QueryPaths(files) :
           /\ call' = [op |-> "GetDependentOverlays", path |-> path,
                       ret |-> GetDependentOverlays(reverseLookup, path),
                       shares |-> GetDependentOverlaysShares(reverseLookup,
                                                             path),
                       mutated |-> FALSE]
           /\ reverseLookup' =
                  ReverseLookupAfterRead(reverseLookup, Clean(path))
    /\ UNCHANGED <<files, nodes, phase, run>>

\* g.GetAllDependents(path)
CallGetAllDependents ==
    /\ phase = "built"
    /\ call = Idle
    /\ \E path \in QueryPaths(files) :
           LET st == TraverseDependents(reverseLookup, path)
           IN  /\ call' = [op |-> "GetAllDependents", path |-> path,
                           ret |-> st.result, expanded |-> st.expanded,
                           overflow |-> st.overflow]
               /\ reverseLookup' =
                      ReverseLookupAfterRead(reverseLookup, Clean(path))
    /\ UNCHANGED <<files, nodes, phase, run>>

\* g.IsBase(path)
CallIsBase ==
    /\ phase = "built"
    /\ call = Idle
    /\ \E path \in QueryPaths(files) :
           call' = [op |-> "IsBase", path |-> path,
                    ret |-> IsBase(nodes, path)]
    /\ UNCHANGED <<files, nodes, reverseLookup, phase, run>>

\* impactAnalyzer.GetAffectedKustomizations(changedFiles, g, kustomizations)
CallGetAffectedKustomizations ==
    /\ phase = "built"
    /\ call = Idle
    /\ \E changedFiles \in ChangedLists(files) :
           call' = [op |-> "GetAffectedKustomizations",
                    changedFiles |-> changedFiles,
                    ret |-> GetAffectedKustomizations(changedFiles,
                                                      reverseLookup, files)]
    /\ UNCHANGED <<files, nodes, reverseLookup, phase, run>>

\* g.GetNode(path)
CallGetNode ==
    /\ phase = "built"
    /\ call = Idle
    /\ \E path \in QueryPaths(files) :
           call' = [op |-> "GetNode", path |-> path,
                    ret |-> GetNode(nodes, path),
                    shares |-> GetNodeShares(nodes, path),
                    mutated |-> FALSE]
    /\ UNCHANGED <<files, nodes, reverseLookup, phase, run>>

\* g.String()
CallString ==
    /\ phase = "built"
    /\ call = Idle
    /\ call' = [op |-> "String", ret |-> String(nodes, reverseLookup)]
    /\ UNCHANGED <<files, nodes, reverseLookup, phase, run>>

\* What a caller may do to a slice it holds: overwrite its first entry,
\* reverse it in place, or append to it
SliceMutations(s) ==
    {Append(s, DirZ), [i \in 1..Len(s) |-> s[Len(s) + 1 - i]]}
        \cup (IF s = <<>> THEN {} ELSE {[s EXCEPT ![1] = DirZ]})

\* The caller changes the slice GetDependentOverlays returned. A list that
\* shares the slice's storage changes with it, in the entries it has: an
\* append writes behind them.
MutateReturnedSlice ==
    /\ call.op = "GetDependentOverlays"
    /\ ~call.mutated
    /\ \E s \in SliceMutations(call.ret) :
           /\ call' = [call EXCEPT !.ret = s, !.mutated = TRUE]
           /\ reverseLookup' =
                  [k \in DOMAIN reverseLookup |->
                      IF k \in call.shares
                      THEN SubSeq(s, 1, Len(reverseLookup[k]))
                      ELSE reverseLookup[k]]
    /\ UNCHANGED <<files, nodes, phase, run>>

\* What a caller may do to a node it holds a pointer to: set IsBase, or
\* set Dependencies
NodeMutations(node) ==
    {[node EXCEPT !.IsBase = ~@], [node EXCEPT !.Dependencies = <<>>]}

\* The caller changes the node GetNode returned a pointer to. The node of
\* the graph that the pointer points to is the one that changes.
MutateReturnedNode ==
    /\ call.op = "GetNode"
    /\ ~call.mutated
    /\ call.ret # <<>>
    /\ \E node \in NodeMutations(call.ret[1]) :
           /\ call' = [call EXCEPT !.ret = <<node>>, !.mutated = TRUE]
           /\ nodes' = [k \in DOMAIN nodes |->
                           IF k \in call.shares THEN node ELSE nodes[k]]
    /\ UNCHANGED <<files, reverseLookup, phase, run>>

\* The caller takes the result of the call.
Return ==
    /\ call # Idle
    /\ call' = Idle
    /\ UNCHANGED <<files, nodes, reverseLookup, phase, run>>

Next ==
    \/ Build
    \/ BuildAgain
    \/ Return
    \/ CallGetDependentOverlays
    \/ CallGetAllDependents
    \/ CallIsBase
    \/ CallGetNode
    \/ CallString
    \/ CallGetAffectedKustomizations

Spec == Init /\ [][Next]_vars

\* The same run over the collections of fewer units, for the properties
\* that repeat the analysis on many rearranged inputs.
ReducedInit ==
    /\ files \in CollectionsFrom(1, MaxUnits - 1)
                     \cup {TransitiveFixture, BuildFixture, MatchFixture}
    /\ nodes = NewGraph.nodes
    /\ reverseLookup = NewGraph.reverseLookup
    /\ phase = "new"
    /\ call = Idle
    /\ run = NoRun

ReducedSpec == ReducedInit /\ [][Next]_vars

\* The run of main. run.pc is the step main has reached, run.done the
\* steps it has taken, run.error the step that failed.
RunInit ==
    /\ files = <<>>
    /\ nodes = NewGraph.nodes
    /\ reverseLookup = NewGraph.reverseLookup
    /\ phase = "new"
    /\ call = Idle
    /\ \E failOnError \in BOOLEAN :
           run = [pc |-> "start", failOnError |-> failOnError,
                  changedFiles |-> <<>>, affectedPaths |-> EmptyBag,
                  results |-> <<>>, done |-> <<>>, error |-> "none",
                  exit |-> -1]

\* main, step 1: gitAnalyzer.GetChangedFiles fails, or returns the list
RunDetect ==
    /\ run.pc = "start"
    /\ \/ run' = [run EXCEPT !.pc = "exited", !.error = "detect",
                             !.done = Append(@, "detect"), !.exit = 1]
       \/ \E changedFiles \in ChangedReports :
              run' = [run EXCEPT !.pc = "detected",
                                 !.changedFiles = changedFiles,
                                 !.done = Append(@, "detect")]
    /\ UNCHANGED <<files, nodes, reverseLookup, phase, call>>

\* main, step 2: disc.FindAll fails on the walk, or returns the units
RunDiscover ==
    /\ run.pc = "detected"
    /\ \/ /\ run' = [run EXCEPT !.pc = "exited", !.error = "discover",
                                !.done = Append(@, "discover"), !.exit = 1]
          /\ UNCHANGED files
       \/ \E tree \in Trees :
              /\ files' = FindAll(tree)
              /\ run' = [run EXCEPT !.pc = "discovered",
                                    !.done = Append(@, "discover")]
    /\ UNCHANGED <<nodes, reverseLookup, phase, call>>

\* main, step 3: g.Build(kustomizations)
RunBuildGraph ==
    /\ run.pc = "discovered"
    /\ \E o \in RangeOrders(files) :
           LET g == BuildGraph(NewGraph, Reorder(files, o))
           IN  /\ nodes' = g.nodes
               /\ reverseLookup' = g.reverseLookup
    /\ phase' = "built"
    /\ run' = IF BuildError(files) # "nil"
              THEN [run EXCEPT !.pc = "exited", !.error = "graph",
                               !.done = Append(@, "graph"), !.exit = 1]
              ELSE [run EXCEPT !.pc = "built", !.done = Append(@, "graph")]
    /\ UNCHANGED <<files, call>>

\* main, step 4: the impact analysis; with nothing affected the empty
\* result is reported and the run ends
RunAnalyze ==
    /\ run.pc = "built"
    /\ LET affectedPaths ==
               GetAffectedKustomizations(run.changedFiles, reverseLookup,
                                         files)
       IN  run' = IF affectedPaths = EmptyBag
                  THEN [run EXCEPT !.pc = "exited",
                                   !.done = @ \o <<"analyze", "report">>,
                                   !.exit = 0]
                  ELSE [run EXCEPT !.pc = "analyzed",
                                   !.affectedPaths = affectedPaths,
                                   !.done = Append(@, "analyze")]
    /\ UNCHANGED <<files, nodes, reverseLookup, phase, call>>

\* main, step 5: bldr.BuildAll builds every path of the slice; each build
\* succeeds or fails
RunBuildAll ==
    /\ run.pc = "analyzed"
    /\ \E results \in [BagToSet(run.affectedPaths) -> BOOLEAN] :
           run' = [run EXCEPT !.pc = "executed", !.results = results,
                              !.done = Append(@, "build")]
    /\ UNCHANGED <<files, nodes, reverseLookup, phase, call>>

\* main, step 6: the results are reported and the exit status decided
RunReport ==
    /\ run.pc = "executed"
    /\ run' = [run EXCEPT !.pc = "exited", !.done = Append(@, "report"),
                          !.exit = ExitStatus(run.failOnError,
                                              GenerateSummary(run.results))]
    /\ UNCHANGED <<files, nodes, reverseLookup, phase, call>>

RunNext ==
    \/ RunDetect
    \/ RunDiscover
    \/ RunBuildGraph
    \/ RunAnalyze
    \/ RunBuildAll
    \/ RunReport

RunSpec == RunInit /\ [][RunNext]_vars

\* The run of a caller that keeps what the queries return and writes to
\* it, over the three fixtures.
SharingInit ==
    /\ files \in {TransitiveFixture, BuildFixture, MatchFixture}
    /\ nodes = NewGraph.nodes
    /\ reverseLookup = NewGraph.reverseLookup
    /\ phase = "new"
    /\ call = Idle
    /\ run = NoRun

SharingNext ==
    \/ Build
    \/ Return
    \/ CallGetDependentOverlays
    \/ CallGetAllDependents
    \/ CallIsBase
    \/ CallGetNode
    \/ MutateReturnedSlice
    \/ MutateReturnedNode

SharingSpec == SharingInit /\ [][SharingNext]_vars

-----------------------------------------------------------------------------
(* Properties                                                              *)

\* The paths one step from a path of S over the reverse-adjacency relation
StepFrom(rl, S) == UNION {Range(GetDependentOverlays(rl, p)) : p \in S}

RECURSIVE ClosureOf(_, _)
ClosureOf(rl, S) ==
    LET T == S \cup StepFrom(rl, S)
    IN  IF T = S THEN S ELSE ClosureOf(rl, T)

\* The paths reachable from p in one or more steps
Reachable(rl, p) == ClosureOf(rl, StepFrom(rl, {p}))

\* The directories a changed-file list changes directly: the directory of
\* each changed unit-definition file and the directory of each unit that a
\* changed file of another name is referenced by.
DirectlyChanged(changedFiles, fs) ==
    {Clean(Abs(Dir(f))) :
        f \in {g \in Range(changedFiles) : isKustomizationFile(Base(g))}}
    \cup
    {Clean(fs[k].Dir) :
        k \in {j \in 1..Len(fs) :
                 \E f \in Range(changedFiles) :
                     /\ ~isKustomizationFile(Base(f))
                     /\ fileReferencedByKustomization(f, fs[j])}}

\* C1: the elements of GetAllDependents(p) are exactly the unit directories
\* reachable from p in one or more steps of the reverse-adjacency relation.
C1_AllDependentsIsReachableSet ==
    call.op = "GetAllDependents" =>
        Range(call.ret) = Reachable(reverseLookup, call.path)

\* A traversal that returned a dependent which is not a direct one, and
\* left some unit out.
C1_Witness ==
    /\ call.op = "GetAllDependents"
    /\ \E q \in Range(call.ret) :
           q \notin Range(GetDependentOverlays(reverseLookup, call.path))
    /\ UnitDirs(files) \ Range(call.ret) # {}

BaseChanged == <<FileIn(TestBase, KustomizationYaml)>>
Overlay1Changed == <<FileIn(TestOverlay1, KustomizationYaml)>>

C5_CycleSafety ==
    call.op = "GetAllDependents" =>
        /\ ~call.overflow
        /\ Len(call.expanded) <= Cardinality(DOMAIN nodes) + 1
        /\ NoDup(call.ret)
        /\ Len(call.ret) <= Cardinality(DOMAIN nodes)

\* A traversal that started on a cycle of three units and came back to its
\* start.
C5_Witness ==
    /\ call.op = "GetAllDependents"
    /\ Len(call.ret) = 3
    /\ Clean(call.path) \in Range(call.ret)
    /\ Clean(call.path) \notin
           Range(GetDependentOverlays(reverseLookup, call.path))


\* C6: during one GetAllDependents call no path has its dependents looked
\* up more than once, the starting path included.
C6_NoPathExpandedTwice ==
    call.op = "GetAllDependents" => NoDup(call.expanded)

\* Every reference a unit declares, whatever the field
AllReferences(file) == file.Resources \o file.Bases \o file.Components

\* C7: in every field a reference with an extension never becomes a
\* dependency and never creates a reverse-adjacency edge, and a reference
\* without an extension is always a dependency.
C7_ClassificationInEveryField ==
    phase = "built" =>
        \A i \in 1..Len(files) :
            LET u    == files[i]
                deps == nodes[u.Dir].Dependencies
            IN  /\ \A r \in Range(AllReferences(u)) :
                       IF Ext(r) # <<>> THEN r \notin Range(deps)
                       ELSE r \in Range(deps)
                /\ \A t \in DOMAIN reverseLookup :
                       u.Dir \in Range(reverseLookup[t]) =>
                           \E r \in Range(AllReferences(u)) :
                               /\ Ext(r) = <<>>
                               /\ Clean(Join(u.Dir, r)) = t

\* C8: with an empty unit collection the affected set is empty, whatever
\* the changed files.
C8_EmptyCollectionGivesEmptySet ==
    (call.op = "GetAffectedKustomizations" /\ files = <<>>) =>
        call.ret = EmptyBag

\* A changed file that is a unit-definition file, or that equals or lies
\* under a resolved reference of some unit
Matches(f, fs) ==
    \/ isKustomizationFile(Base(f))
    \/ \E k \in 1..Len(fs) :
       \E r \in Range(AllReferences(fs[k])) :
           LET resolved == Clean(Join(Clean(fs[k].Dir), r))
           IN  \/ Clean(f) = resolved
               \/ HasPrefix(Clean(f), resolved \o <<Sep>>)

MatchingOnly(changedFiles, fs) ==
    LET IsMatch(f) == Matches(f, fs) IN SelectSeq(changedFiles, IsMatch)

\* C9: a changed-file list that is empty or holds only files that match
\* nothing gives the empty set, and the files of a list that match nothing
\* add nothing to what the matching ones give.
C9_NonMatchingFilesAddNothing ==
    call.op = "GetAffectedKustomizations" =>
        /\ MatchingOnly(call.changedFiles, files) = <<>> =>
               call.ret = EmptyBag
        /\ BagToSet(call.ret) =
               AffectedMap(MatchingOnly(call.changedFiles, files),
                           reverseLookup, files, 1, {})

\* An analysis of two files of which one lies in the directory of a unit
\* and matches nothing, while the other affects a unit.
C9_Witness ==
    /\ call.op = "GetAffectedKustomizations"
    /\ Len(call.changedFiles) = 2
    /\ Len(MatchingOnly(call.changedFiles, files)) = 1
    /\ call.ret # EmptyBag
    /\ \E f \in Range(call.changedFiles) :
           /\ ~Matches(f, files)
           /\ \E k \in 1..Len(files) :
                  HasPrefix(Clean(f), Clean(files[k].Dir))

RBaseChanged == <<FileIn(RBase, KustomizationYaml)>>

UnderReference(f, u, refs) ==
    \E r \in Range(refs) :
        LET resolved == Clean(Join(Clean(u.Dir), r))
        IN  \/ Clean(f) = resolved
            \/ HasPrefix(Clean(f), resolved \o <<Sep>>)

\* C11: IsBase(p) is true exactly when p is a unit directory and a unit of
\* another directory declares a reference that resolves to p; a unit that
\* only refers to itself is not a base, and a path without a unit is not.
C11_IsBaseIffOtherUnitRefers ==
    call.op = "IsBase" =>
        LET p == Clean(call.path)
        IN  call.ret <=>
                /\ p \in UnitDirs(files)
                /\ \E i \in 1..Len(files) :
                       /\ files[i].Dir # p
                       /\ \E r \in Range(AllReferences(files[i])) :
                              Clean(Join(files[i].Dir, r)) = p

\* C14: a changed file that is not a unit-definition file and equals or
\* lies under a resolved reference of a unit puts that unit's directory in
\* the affected set, also when the reference leaves the unit's directory.
C14_ReferenceMatchingComplete ==
    call.op = "GetAffectedKustomizations" =>
        \A f \in Range(call.changedFiles) :
            ~isKustomizationFile(Base(f)) =>
                \A k \in 1..Len(files) :
                    UnderReference(f, files[k], AllReferences(files[k])) =>
                        BagIn(Clean(files[k].Dir), call.ret)

RECURSIVE AsResources(_, _)
\* The collection fs[i..] with every unit's bases and components entries
\* moved into its resources
AsResources(fs, i) ==
    IF i > Len(fs) THEN <<>>
    ELSE <<KustomizeFile(fs[i].Dir, AllReferences(fs[i]), <<>>, <<>>)>>
             \o AsResources(fs, i + 1)

\* C16: the analyzer gives the same affected set whether an entry stands in
\* a unit's bases or components list or in its resources list.
C16_FieldsTreatedAlike ==
    call.op = "GetAffectedKustomizations" =>
        BagToSet(call.ret) =
            AffectedMap(call.changedFiles, reverseLookup,
                        AsResources(files, 1), 1, {})

\* C18: every path of the affected set is the directory of a unit of the
\* collection and a node of the graph.
C18_AffectedAreUnitDirectories ==
    call.op = "GetAffectedKustomizations" =>
        /\ BagToSet(call.ret) \subseteq {Clean(d) : d \in UnitDirs(files)}
        /\ BagToSet(call.ret) \subseteq DOMAIN nodes

\* The directories the changed files change directly when every declared
\* reference counts: the directory of each changed unit-definition file and
\* of each unit with a reference that a changed file equals or lies under
ReferencedDirectly(changedFiles, fs) ==
    {Clean(Abs(Dir(f))) :
        f \in {g \in Range(changedFiles) : isKustomizationFile(Base(g))}}
    \cup
    {Clean(fs[k].Dir) :
        k \in {j \in 1..Len(fs) :
                 \E f \in Range(changedFiles) :
                     /\ ~isKustomizationFile(Base(f))
                     /\ UnderReference(f, fs[j], AllReferences(fs[j]))}}

\* C15: a changed file that is not a unit-definition file makes a unit
\* directly changed only if it equals a resolved reference of the unit or
\* begins with one followed by a separator; so every affected path is such
\* a unit, the directory of a changed definition file, or a dependent of
\* one of these.
C15_ReferenceMatchingSound ==
    call.op = "GetAffectedKustomizations" =>
        /\ \A f \in Range(call.changedFiles) :
               ~isKustomizationFile(Base(f)) =>
                   \A k \in 1..Len(files) :
                       fileReferencedByKustomization(f, files[k]) =>
                           UnderReference(f, files[k],
                                          AllReferences(files[k]))
        /\ BagToSet(call.ret) \subseteq
               UNION {{d} \cup Reachable(reverseLookup, d) :
                      d \in ReferencedDirectly(call.changedFiles, files)}

\* f has a resolved reference of the unit u as a string prefix and neither
\* equals it nor lies under it
BarePrefixOnly(f, u) ==
    /\ \E r \in Range(AllReferences(u)) :
           HasPrefix(Clean(f), Clean(Join(Clean(u.Dir), r)))
    /\ ~UnderReference(f, u, AllReferences(u))

\* An analysis of two files that each have a resolved reference of a unit
\* as a bare string prefix, and that affects nothing.
C15_Witness ==
    /\ call.op = "GetAffectedKustomizations"
    /\ Len(call.changedFiles) = 2
    /\ \A f \in Range(call.changedFiles) :
           \E k \in 1..Len(files) : BarePrefixOnly(f, files[k])
    /\ call.ret = EmptyBag

\* The names of a unit-definition file
DefinitionNames == {KustomizationYaml, KustomizationYml, KustomizationBare}

\* C17: a changed file is handled as a change of a unit definition (its
\* directory and that directory's dependents are added, no unit is scanned)
\* exactly when its base name is one of the three definition names, a file
\* of any other name is handled by the scan of the units' references, and
\* the analyzer's and the discovery's name tests accept these names only.
C17_DefinitionFileNames ==
    call.op = "GetAffectedKustomizations" =>
        /\ \A f \in Range(call.changedFiles) :
               /\ isKustomizationFile(Base(f)) <=> Base(f) \in DefinitionNames
               /\ discoveryIsKustomizationFile(Base(f)) <=>
                      Base(f) \in DefinitionNames
               /\ Base(f) \in DefinitionNames =>
                      BagIn(Clean(Abs(Dir(f))), call.ret)
        /\ BagToSet(call.ret) =
               UNION { IF Base(f) \in DefinitionNames
                       THEN addAffected(Abs(Dir(f)), reverseLookup, {})
                       ELSE ScanKustomizations(f, reverseLookup, files, 1, {}) :
                       f \in Range(call.changedFiles) }

\* An analysis of the one file kustomize.yaml in the directory of a unit,
\* which leaves that unit out.
C17_Witness ==
    /\ call.op = "GetAffectedKustomizations"
    /\ Len(call.changedFiles) = 1
    /\ Base(call.changedFiles[1]) = KustomizeYaml
    /\ Abs(Dir(call.changedFiles[1])) \in UnitDirs(files)
    /\ call.ret = EmptyBag

\* Every list that is s in another order, s with one entry written twice,
\* or s written twice
Rearranged(s) ==
    {Reorder(s, o) : o \in Permutations(1..Len(s))}
        \cup {SubSeq(s, 1, i) \o SubSeq(s, i, Len(s)) : i \in 1..Len(s)}
        \cup {s \o s}

RECURSIVE Dedup(_, _)
\* s[i..] with every entry kept where it stands first
Dedup(s, i) ==
    IF i > Len(s) THEN <<>>
    ELSE IF \E j \in 1..(i - 1) : s[j] = s[i] THEN Dedup(s, i + 1)
    ELSE <<s[i]>> \o Dedup(s, i + 1)

\* The reverse-adjacency lists without repeated dependents, and with every
\* dependent repeated
WithoutRepeats(rl) == [k \in DOMAIN rl |-> Dedup(rl[k], 1)]
WithRepeats(rl) == [k \in DOMAIN rl |-> rl[k] \o rl[k]]

\* C19: the returned slice holds each directory once, and its set of
\* elements is the same for the changed files in any order and with
\* entries repeated, and for reverse-adjacency lists with or without a
\* dependent repeated.
C19_SetSemantics ==
    call.op = "GetAffectedKustomizations" =>
        /\ \A d \in BagToSet(call.ret) : CopiesIn(d, call.ret) = 1
        /\ \A cf \in Rearranged(call.changedFiles) :
               BagToSet(GetAffectedKustomizations(cf, reverseLookup, files))
                   = BagToSet(call.ret)
        /\ \A rl \in {WithoutRepeats(reverseLookup),
                       WithRepeats(reverseLookup)} :
               BagToSet(GetAffectedKustomizations(call.changedFiles, rl,
                                                  files))
                   = BagToSet(call.ret)

\* An analysis of two changed files that each affect a unit the other does
\* not, over a graph in which a unit stands twice in the list of a base
\* that is affected.
C19_Witness ==
    /\ call.op = "GetAffectedKustomizations"
    /\ Len(call.changedFiles) = 2
    /\ LET one == AffectedMap(<<call.changedFiles[1]>>, reverseLookup,
                              files, 1, {})
           two == AffectedMap(<<call.changedFiles[2]>>, reverseLookup,
                              files, 1, {})
       IN  one \ two # {} /\ two \ one # {}
    /\ \E k \in DOMAIN reverseLookup :
           /\ ~NoDup(reverseLookup[k])
           /\ BagIn(k, call.ret)

Answers(n, rl, p) ==
    [overlays |-> GetDependentOverlays(rl, p),
     dependents |-> GetAllDependents(rl, p),
     isBase |-> IsBase(n, p),
     node |-> GetNode(n, p)]

\* The step leaves the answer of every query as it was.
AnswersUnchanged ==
    \A p \in QueryPaths(files) :
        Answers(nodes', reverseLookup', p) = Answers(nodes, reverseLookup, p)

C13_NoQueryReturnsInternalState ==
    [][(MutateReturnedSlice \/ MutateReturnedNode) => AnswersUnchanged]_vars

\* C21: the graph built from the units in any other order has the same
\* IsBase flag for every path and the same set of direct dependents for
\* every base; a reference to a unit that stands later in the collection
\* resolves like one to a unit that stands earlier.
C21_BuildOrderIndependent ==
    (call.op = "Build" /\ NoDup([i \in 1..Len(files) |-> files[i].Dir])) =>
        \A o \in Permutations(1..Len(files)) :
            LET g == BuildGraph(NewGraph, Reorder(files, o))
            IN  \A p \in QueryPaths(files) :
                    /\ IsBase(g.nodes, p) = IsBase(nodes, p)
                    /\ Range(GetDependentOverlays(g.reverseLookup, p)) =
                           Range(GetDependentOverlays(reverseLookup, p))

\* A graph just built from three or more units in which a unit depends on
\* one that stands later in the collection, and another on one that stands
\* earlier.
C21_Witness ==
    /\ call.op = "Build"
    /\ Len(files) >= 3
    /\ \E i, j \in 1..Len(files) :
           /\ i < j
           /\ files[i].Dir \in
                  Range(GetDependentOverlays(reverseLookup, files[j].Dir))
    /\ \E i, j \in 1..Len(files) :
           /\ i > j
           /\ files[i].Dir \in
                  Range(GetDependentOverlays(reverseLookup, files[j].Dir))

\* The units of fs that a dependency of theirs resolves to the path t, one
\* for each such dependency, in the order in which Build meets them
RECURSIVE DependentsOf(_, _, _)
DependentsOf(fs, t, i) ==
    IF i > Len(fs) THEN <<>>
    ELSE LET ResolvesToT(dep) == Clean(Join(fs[i].Dir, dep)) = t
             hits == SelectSeq(extractDependencies(fs[i]), ResolvesToT)
         IN  [k \in 1..Len(hits) |-> fs[i].Dir] \o DependentsOf(fs, t, i + 1)

\* C22: Build returns no error, and a dependency that resolves to a path
\* without a unit has no effect: the nodes are the units' directories, the
\* reverse-adjacency map has a key for a unit that some dependency resolves
\* to and for no other path, and its list holds the referring unit once for
\* each dependency that resolves to the unit, the dependencies that stand
\* after a skipped one included.
C22_MissingReferenceSkipped ==
    call.op = "Build" =>
        /\ call.err = "nil"
        /\ DOMAIN nodes = UnitDirs(files)
        /\ \A t \in DOMAIN reverseLookup : t \in UnitDirs(files)
        /\ \A t \in UnitDirs(files) :
               /\ GetDependentOverlays(reverseLookup, t) =
                      DependentsOf(files, t, 1)
               /\ IsBase(nodes, t) <=> DependentsOf(files, t, 1) # <<>>

\* A graph just built from a collection in which a unit names a path
\* without a unit and, after it, a unit of the collection.
C22_Witness ==
    /\ call.op = "Build"
    /\ \E i \in 1..Len(files) :
           LET deps == extractDependencies(files[i])
           IN  \E j, k \in 1..Len(deps) :
                   /\ j < k
                   /\ Clean(Join(files[i].Dir, deps[j])) \notin DOMAIN nodes
                   /\ Clean(Join(files[i].Dir, deps[k])) \in DOMAIN nodes
                   /\ files[i].Dir \in
                          Range(GetDependentOverlays(reverseLookup,
                              Clean(Join(files[i].Dir, deps[k]))))

\* The built graph has a cycle: a path that is reachable from itself over
\* the reverse-adjacency relation
HasCycle(rl) == \E p \in DOMAIN rl : p \in Reachable(rl, p)

\* The phases main runs, in their order
PhaseOrder == <<"detect", "discover", "graph", "analyze", "build", "report">>

\* The place of a phase in PhaseOrder
PhaseIndex(ph) == CHOOSE i \in 1..Len(PhaseOrder) : PhaseOrder[i] = ph

\* The changed file, reported relative to the working directory, is the
\* file that an entry of the unit's resources names
ListedInResources(changedFile, kust) ==
    \E i \in 1..Len(kust.Resources) :
        Abs(changedFile) = Clean(Join(kust.Dir, kust.Resources[i]))

\* C23: when the impact analysis of a run is done, every unit that lists in
\* its resources a changed file which the change detector reported relative
\* to the working directory is in the affected set, together with every
\* overlay that depends on it.
C23_RelativeResourceFileAffectsUnit ==
    "analyze" \in Range(run.done) =>
        \A i \in 1..Len(run.changedFiles), k \in 1..Len(files) :
            (/\ ~IsAbs(run.changedFiles[i])
             /\ ~isKustomizationFile(Base(run.changedFiles[i]))
             /\ ListedInResources(run.changedFiles[i], files[k]))
            => /\ BagIn(Clean(files[k].Dir), run.affectedPaths)
               /\ \A dep \in Range(GetAllDependents(reverseLookup,
                                                    Clean(files[k].Dir))) :
                      BagIn(Clean(dep), run.affectedPaths)

\* C24: of a collection with a reference cycle no graph and no affected set
\* is produced: Build returns an error, and no analysis returns a result.
C24_CycleReportedAsError ==
    HasCycle(reverseLookup) =>
        /\ call.op \in {"Build", "BuildAgain"} => call.err # "nil"
        /\ call.op # "GetAffectedKustomizations"

\* C25: the units that FindAll returns have pairwise distinct Dir values,
\* whatever the directory tree.
C25_FindAllDirsDistinct ==
    "discover" \in Range(run.done) =>
        \A i, j \in 1..Len(files) : files[i].Dir = files[j].Dir => i = j

\* C26: the phases of a run are taken in the order detect, discover, graph,
\* analyze, build, report; a run in which detection, discovery or the graph
\* build failed has exit status 1 and built nothing; a run with an empty
\* affected set has exit status 0 and built nothing; otherwise every
\* affected path has a build result, and the exit status is 1 exactly when
\* fail-on-error is set and some build failed.
C26_RunOrderAndExitStatus ==
    LET done     == run.done
        built    == "build" \in Range(done)
        analyzed == "analyze" \in Range(done)
        affected == GetAffectedKustomizations(run.changedFiles,
                                              reverseLookup, files)
    IN  run.pc # "none" =>
        /\ \A i, j \in 1..Len(done) :
               i < j => PhaseIndex(done[i]) < PhaseIndex(done[j])
        /\ \A i \in 1..Len(done) :
               PhaseIndex(done[i]) <= 4 => PhaseIndex(done[i]) = i
        /\ run.exit \in {-1, 0, 1}
        /\ (run.pc = "exited") = (run.exit # -1)
        /\ run.error # "none" =>
               /\ run.pc = "exited"
               /\ run.exit = 1
               /\ ~built
               /\ run.results = <<>>
               /\ done[Len(done)] = run.error
        /\ (analyzed /\ affected = EmptyBag) =>
               /\ run.pc = "exited"
               /\ run.exit = 0
               /\ ~built
               /\ run.results = <<>>
        /\ (analyzed /\ affected # EmptyBag /\ run.pc = "exited") => built
        /\ built =>
               /\ affected # EmptyBag
               /\ DOMAIN run.results = BagToSet(affected)
        /\ (built /\ run.pc = "exited") =>
               /\ done = PhaseOrder
               /\ (run.exit = 1) =
                      (run.failOnError /\ \E p \in DOMAIN run.results :
                                              ~run.results[p])
               /\ (run.exit = 0) =
                      ~(run.failOnError /\ \E p \in DOMAIN run.results :
                                               ~run.results[p])

\* A run has ended in which three paths were affected, the build of one
\* failed and the builds of the others succeeded while fail-on-error was
\* not set, so that the exit status is 0.
C26_Witness ==
    /\ run.pc = "exited"
    /\ ~run.failOnError
    /\ Cardinality(DOMAIN run.results) = 3
    /\ Cardinality({p \in DOMAIN run.results : ~run.results[p]}) = 1
    /\ run.exit = 0

C28_ParentDirectoryReference ==
    phase # "new" =>
        \A i \in 1..Len(files) :
            \A r \in Range(files[i].Resources) :
                LET resolved == Clean(Join(files[i].Dir, r))
                IN  (Base(r) = DotDot /\ resolved \in UnitDirs(files)) =>
                        /\ IsBase(nodes, resolved)
                        /\ files[i].Dir \in
                               Range(GetDependentOverlays(reverseLookup,
                                                          resolved))

\* The operations that ask the graph and do not build it
QueryOps ==
    {"GetDependentOverlays", "GetAllDependents", "IsBase", "GetNode",
     "String", "GetAffectedKustomizations"}

C30_BuildIdempotent ==
    call.op = "BuildAgain" =>
        LET first == BuildGraph(NewGraph, files)
        IN  \A p \in QueryPaths(files) :
                /\ IsBase(nodes, p) = IsBase(first.nodes, p)
                /\ GetDependentOverlays(reverseLookup, p) =
                       GetDependentOverlays(first.reverseLookup, p)

=============================================================================
